---- MODULE Spec2Model ----
(***************************************************************************)
(* A model of huawei-net-forensics: the diagnosis engine                   *)
(* (forensics.py, ForensicsEngine), the strain index and the sampling      *)
(* orchestrator (main.py, calculate_simple_psi and Monitor).               *)
(*                                                                         *)
(* Arithmetic.  The likelihoods are Python floats built from the decimal   *)
(* literals 0.95, 0.8, 0.4, ... by +, * and one division.  They are kept   *)
(* here exactly, as integers in units of 1/Unit (1/10000), and after the   *)
(* normalisation as numerators over a common denominator.  round(x, 2)     *)
(* is round-to-nearest; where the exact value lies half way between two    *)
(* hundredths the binary float that stands for it decides, so both         *)
(* neighbours are possible outcomes (Round2 is a set).  Two likelihoods    *)
(* that are equal as decimals are compared as equal; as floats reached by  *)
(* different sums they may differ in the last bit.  consistency_score and  *)
(* ramp_up_ratio are carried in hundredths; Mbps, milliseconds and the rf  *)
(* score are whole numbers.                                                *)
(*                                                                         *)
(* Python values.  None and "key missing" are the empty sequence <<>>, a   *)
(* present value v is <<v>>; a dict is a function from its keys.           *)
(***************************************************************************)
EXTENDS Integers, Sequences, FiniteSets, TLC

VARIABLES
    args,                \* the call under check: the function and its arguments
    ret,                 \* its outcome, <<>> until the call has returned
    initial_pc,          \* the run_initial_speedtest thread: "start" or "done"
    windows,             \* Monitor.windows: key -> the scores of its window
    current_key,         \* Monitor.current_key
    since_change,        \* time.time() - Monitor.last_change
    since_speedtest,     \* time.time() - Monitor.last_speedtest_time
    daily_tests_count,   \* Monitor.daily_tests_count
    current_day,         \* Monitor.current_day
    current_session,     \* Monitor.current_session
    last_speed_result,   \* the global last_speed_result
    latest_state,        \* the global latest_state
    observations,        \* LOG_CSV: the number of Policy rows, the last row
    cell_sessions,       \* CELL_HISTORY_CSV: the last row
    cycle,               \* what the last tick's process_window did
    ticks_on_key,        \* the ticks that read a snapshot since current_key
                         \* was last set
    polled,              \* what the latest tick's get_signal_metrics() gave
    ticks_since_cycle,   \* the ticks that read a snapshot since the last
                         \* cycle of this stay on current_key, <<>> when
                         \* the stay has seen no cycle
    probe,               \* run_forensic_download: where it is, its locals
                         \* and what it returned
    ping_threads,        \* the run_ping_thread threads that are alive
    state_lock,          \* the thread that holds state_lock, <<>> when free
    thread_pc            \* where each thread of the program is

monitor_vars ==
    <<initial_pc, windows, current_key, since_change, since_speedtest,
      daily_tests_count, current_day, current_session, last_speed_result,
      latest_state, observations, cell_sessions, cycle, ticks_on_key,
      polled, ticks_since_cycle>>

probe_vars == <<probe, ping_threads>>

lock_vars == <<state_lock, thread_pc>>

vars == <<args, ret, monitor_vars, probe_vars, lock_vars>>

----------------------------------------------------------------------------
(* Python helpers *)

None == <<>>

Some(v) == <<v>>

IsNone(x) == x = <<>>

Val(x) == x[1]

EmptyDict == [k \in {} |-> 0]

\* dict.get(key, default)
Get(d, key, default) == IF key \in DOMAIN d THEN d[key] ELSE default

\* Python truthiness of "dict or None": None and {} are falsy
Truthy(d) == ~IsNone(d) /\ DOMAIN Val(d) # {}

Min2(a, b) == IF a < b THEN a ELSE b

Max2(a, b) == IF a > b THEN a ELSE b

Max3(a, b, c) == Max2(a, Max2(b, c))

\* list.count(x)
RECURSIVE Count(_, _)
Count(s, x) ==
    IF s = <<>> THEN 0
    ELSE (IF Head(s) = x THEN 1 ELSE 0) + Count(Tail(s), x)

\* x in list
Contains(s, x) == \E i \in 1..Len(s) : s[i] = x

----------------------------------------------------------------------------
(* forensics.py: ForensicsEngine *)

\* one likelihood unit is 1/Unit
Unit == 100 * 100

\* a decimal literal given in hundredths, e.g. Lit(95) is 0.95
Lit(h) == h * 100

RADIO_THRESHOLD_TERRIBLE == 30
RADIO_THRESHOLD_BAD == 50
RADIO_THRESHOLD_MED == 70
RADIO_THRESHOLD_GOOD == 85
JITTER_THRESHOLD_HIGH == 30
PACKET_LOSS_THRESHOLD == 2
SPEED_THRESHOLD_FAST == 50
SPEED_THRESHOLD_SLOW == 10
\* RAMP_UP_THRESHOLD = 1.2, in hundredths
RAMP_UP_THRESHOLD == 120

VERDICT_INCONCLUSIVE == "Inconclusive / Gathering Data"
VERDICT_RADIO == "Radio Impairment Likely"
VERDICT_CONGESTION == "Congestion Indicators Present"
VERDICT_POLICY == "Policy-Like Pattern Detected"
VERDICT_MIXED == "Mixed Signals"
VERDICT_LOW_CONFIDENCE == "Observed, low confidence"

Verdicts ==
    { VERDICT_INCONCLUSIVE, VERDICT_RADIO, VERDICT_CONGESTION,
      VERDICT_POLICY, VERDICT_MIXED, VERDICT_LOW_CONFIDENCE }

\* the characters of each verdict up to its first blank or dash
FirstWord(v) ==
    CASE v = VERDICT_INCONCLUSIVE -> "Inconclusive"
      [] v = VERDICT_RADIO -> "Radio"
      [] v = VERDICT_CONGESTION -> "Congestion"
      [] v = VERDICT_POLICY -> "Policy"
      [] v = VERDICT_MIXED -> "Mixed"
      [] v = VERDICT_LOW_CONFIDENCE -> "Observed,"

\* verdict.startswith("Policy")
StartsWithPolicy(v) == FirstWord(v) = "Policy"

\* _extract_metrics: signal_data may be None or empty, network_data is
\* dereferenced as it is
extract_metrics(signal_data, network_data) ==
    LET nd == Val(network_data) IN
    [ rf_score |-> IF Truthy(signal_data)
                   THEN Get(Val(signal_data), "score", None) ELSE None,
      down_mbps |-> Get(nd, "down_mbps", 0),
      latency |-> Get(nd, "latency", 0),
      jitter |-> Get(nd, "jitter", 0),
      packet_loss |-> Get(nd, "packet_loss", 0),
      ramp_up |-> Get(nd, "ramp_up_ratio", 100),
      consistency |-> Get(nd, "consistency_score", 50),
      latency_diff |-> Get(nd, "latency_under_load_diff", 0),
      shapes |-> Get(nd, "shapes", <<>>) ]

radio_gt_for_lt(rf_score) ==
    IF IsNone(rf_score) THEN Lit(10)
    ELSE IF Val(rf_score) < RADIO_THRESHOLD_TERRIBLE THEN Lit(95)
    ELSE IF Val(rf_score) < RADIO_THRESHOLD_BAD THEN Lit(80)
    ELSE IF Val(rf_score) < RADIO_THRESHOLD_MED THEN Lit(40)
    ELSE IF Val(rf_score) < RADIO_THRESHOLD_GOOD THEN Lit(5)
    ELSE 0

calculate_radio(rf_score) ==
    IF IsNone(rf_score) THEN Lit(10)
    ELSE IF Val(rf_score) < RADIO_THRESHOLD_TERRIBLE THEN Lit(95)
    ELSE IF Val(rf_score) < RADIO_THRESHOLD_BAD THEN Lit(80)
    ELSE IF Val(rf_score) < RADIO_THRESHOLD_MED THEN Lit(40)
    ELSE IF Val(rf_score) > RADIO_THRESHOLD_GOOD THEN Lit(5)
    ELSE 0

calculate_congestion(m) ==
    LET s1 == IF m.latency_diff > 50 THEN Lit(40)
              ELSE IF m.latency_diff > 20 THEN Lit(20) ELSE 0
        s2 == s1 + (IF m.jitter > JITTER_THRESHOLD_HIGH THEN Lit(30) ELSE 0)
        s3 == s2 + (IF m.packet_loss > PACKET_LOSS_THRESHOLD THEN Lit(20) ELSE 0)
        s4 == s3 + (IF Contains(m.shapes, "linear_climb") THEN Lit(20) ELSE 0)
        s5 == IF m.down_mbps > SPEED_THRESHOLD_FAST THEN s4 \div 10 ELSE s4
    IN  Min2(Unit, s5)

calculate_policy(m, history) ==
    LET is_slow == m.down_mbps < SPEED_THRESHOLD_SLOW
        plateau_count == Count(m.shapes, "plateau")
        s1 == IF m.consistency > 80 THEN Lit(50)
              ELSE IF m.consistency > 60 THEN Lit(30) ELSE 0
        s2 == s1 + (IF plateau_count >= 2 THEN Lit(40)
                    ELSE IF plateau_count = 1 THEN Lit(20) ELSE 0)
        s3 == s2 + (IF Truthy(history) /\ Get(Val(history), "is_stable_hour", FALSE)
                    THEN Lit(30) ELSE 0)
        s4 == s3 + (IF m.ramp_up > RAMP_UP_THRESHOLD THEN Lit(10) ELSE 0)
        s5 == IF ~is_slow THEN s4 \div 2 ELSE s4
    IN  Min2(Unit, s5)

\* the three multipliers, each applied when its condition holds
JitterFactor(x, m) == IF m.jitter > 100 THEN (x * 5) \div 10 ELSE x

LatencyFactor(x, m) == IF m.latency_diff > 200 THEN (x * 6) \div 10 ELSE x

RfFactor(x, m) ==
    IF ~IsNone(m.rf_score) /\ Val(m.rf_score) < 40 THEN (x * 4) \div 10 ELSE x

counter_evidence_skips_rf(policy_score, m) ==
    LatencyFactor(JitterFactor(policy_score, m), m)

apply_counter_evidence(policy_score, m) ==
    RfFactor(LatencyFactor(JitterFactor(policy_score, m), m), m)

is_confident_any_history(history) ==
    IF ~Truthy(history) THEN FALSE
    ELSE Get(Val(history), "policy_count", 0) >= 0

is_confident(history) ==
    IF ~Truthy(history) THEN FALSE
    ELSE Get(Val(history), "policy_count", 0) >= 3

\* Likelihoods after line 28-30: numerators n over the common denominator
\* den, in units of 1/Unit.  total > 0.95 scales by 0.95 / total.
normalize_always(r, c, p) ==
    LET total == r + c + p IN
    IF total > 0
    THEN [r |-> r * Lit(95), c |-> c * Lit(95), p |-> p * Lit(95), den |-> total]
    ELSE [r |-> r, c |-> c, p |-> p, den |-> 1]

normalize(r, c, p) ==
    LET total == r + c + p IN
    IF total > Lit(95)
    THEN [r |-> r * Lit(95), c |-> c * Lit(95), p |-> p * Lit(95), den |-> total]
    ELSE [r |-> r, c |-> c, p |-> p, den |-> 1]

verdict_policy_first(r, c, p, den) ==
    LET mx == Max3(r, c, p) IN
    IF mx < Lit(40) * den THEN VERDICT_INCONCLUSIVE
    ELSE IF p = mx THEN VERDICT_POLICY
    ELSE IF c = mx THEN VERDICT_CONGESTION
    ELSE IF r = mx THEN VERDICT_RADIO
    ELSE VERDICT_MIXED

\* _get_verdict on r/den, c/den, p/den
get_verdict(r, c, p, den) ==
    LET mx == Max3(r, c, p) IN
    IF mx < Lit(40) * den THEN VERDICT_INCONCLUSIVE
    ELSE IF r = mx THEN VERDICT_RADIO
    ELSE IF c = mx THEN VERDICT_CONGESTION
    ELSE IF p = mx THEN VERDICT_POLICY
    ELSE VERDICT_MIXED

\* round(n / den, 2) in hundredths: the nearest hundredth, either one at
\* an exact half
Round2(n, den) ==
    LET w == 100 * den
        q == n \div w
        rem == n % w
    IN  IF 2 * rem < w THEN {q}
        ELSE IF 2 * rem > w THEN {q + 1}
        ELSE {q, q + 1}

\* The values analyze computes before it builds its result (lines 20-35).
analyze_core(signal_data, network_data, history) ==
    LET metrics == extract_metrics(signal_data, network_data)
        radio == calculate_radio(metrics.rf_score)
        congestion == calculate_congestion(metrics)
        policy0 == calculate_policy(metrics, history)
        policy == apply_counter_evidence(policy0, metrics)
        n == normalize(radio, congestion, policy)
        selected == get_verdict(n.r, n.c, n.p, n.den)
        verdict == IF StartsWithPolicy(selected) /\ ~is_confident(history)
                   THEN VERDICT_LOW_CONFIDENCE ELSE selected
    IN  [ metrics |-> metrics, radio |-> radio, congestion |-> congestion,
          policy0 |-> policy0, policy |-> policy, n |-> n,
          selected |-> selected, verdict |-> verdict ]

\* The outcomes of analyze(signal_data, network_data, history): the
\* AttributeError of None.get when network_data is None, else the dict of
\* lines 37-43 (likelihoods in hundredths).
analyze(signal_data, network_data, history) ==
    IF IsNone(network_data) THEN { [error |-> "AttributeError"] }
    ELSE
      LET a == analyze_core(signal_data, network_data, history) IN
      { [ error |-> "",
          radio_likelihood |-> rr,
          congestion_likelihood |-> rc,
          policy_likelihood |-> rp,
          verdict |-> a.verdict,
          consistency_score |-> a.metrics.consistency ] :
        rr \in Round2(a.n.r, a.n.den),
        rc \in Round2(a.n.c, a.n.den),
        rp \in Round2(a.n.p, a.n.den) }

----------------------------------------------------------------------------
(* main.py: calculate_simple_psi *)

\* A score is a fraction [n, d] (the mean of a window of whole scores).
Frac(n, d) == [n |-> n, d |-> d]

psi_without_floor(rf_score, down_mbps, latency_avg) ==
    LET d == IF IsNone(rf_score) THEN 1 ELSE Val(rf_score).d
        rf == IF ~IsNone(rf_score) THEN 15 * Val(rf_score).n ELSE 15 * 50 * d
        speed_score == Max2(0, Min2(15 * 100, 50 * down_mbps))
        lat_pen == IF ~IsNone(latency_avg) /\ Val(latency_avg) # 0
                      /\ Val(latency_avg) > 100
                   THEN 3 * (Val(latency_avg) - 100) ELSE 0
    IN  Frac(Min2(15 * 100 * d, rf - d * speed_score + d * lat_pen), 15 * d)

\* The result is the fraction n / d with d = 15 * (the score's denominator):
\* down_mbps / 30.0 * 100 is 50 * down_mbps fifteenths, (latency - 100) / 5.0
\* is 3 * (latency - 100) fifteenths.
calculate_simple_psi(rf_score, down_mbps, latency_avg) ==
    LET d == IF IsNone(rf_score) THEN 1 ELSE Val(rf_score).d
        rf == IF ~IsNone(rf_score) THEN 15 * Val(rf_score).n ELSE 15 * 50 * d
        speed_score == Max2(0, Min2(15 * 100, 50 * down_mbps))
        lat_pen == IF ~IsNone(latency_avg) /\ Val(latency_avg) # 0
                      /\ Val(latency_avg) > 100
                   THEN 3 * (Val(latency_avg) - 100) ELSE 0
    IN  Frac(Max2(0, Min2(15 * 100 * d, rf - d * speed_score + d * lat_pen)),
             15 * d)

----------------------------------------------------------------------------
(* main.py: Monitor and the module state it works on.                      *)
(*                                                                         *)
(* Time.  The code keeps the absolute clock readings last_change and       *)
(* last_speedtest_time and only ever uses time.time() minus one of them.   *)
(* The model keeps these differences, since_change and since_speedtest,    *)
(* as of the latest tick, in whole seconds; each tick first adds the time  *)
(* that passed since the tick before it.  A difference is held once it is  *)
(* past the largest value the code compares it with (WINDOW_SECONDS,       *)
(* BASELINE_INTERVAL_SECONDS): last_speedtest_time = 0 at construction is  *)
(* "longer ago than the baseline interval".                                *)

WINDOW_SECONDS == 90
MIN_SAMPLES == 5
MAX_DAILY_tests == 12
PSI_TRIGGER_THRESHOLD == 50
BASELINE_INTERVAL_SECONDS == 4 * 3600
\* the literal 900 of execute_speedtest_if_needed
COOLDOWN_SECONDS == 900

\* session accumulators are followed for this many samples and then held
SessionCap == 6

\* a window is followed up to this many scores
MaxWindow == 6

\* the rows of the observation store are counted up to this many
MaxRows == 2

\* the time from one tick to the next when the polls follow each other
\* closely
QuickSleep == 20

\* days of the month the model tells apart
DaysInMonth == 2

\* the shortest time from one tick to the next that the model follows
ShortSleep == 180

ChangeAge(x) == Min2(x, WINDOW_SECONDS)

SpeedtestAge(x) == Min2(x, BASELINE_INTERVAL_SECONDS + 1)

RECURSIVE Sum(_)
Sum(s) == IF s = <<>> THEN 0 ELSE Head(s) + Sum(Tail(s))

\* statistics.mean of a non-empty window
Mean(vals) == Frac(Sum(vals), Len(vals))

NETWORK_ONLY == <<"NETWORK_ONLY">>

\* get_key_and_score: the key stands for the f-string band:pci:enodeb
get_key_and_score(d) ==
    IF IsNone(d.score)
    THEN [key |-> NETWORK_ONLY, score |-> 0]
    ELSE [key |-> <<d.band, d.pci, d.enodeb>>, score |-> Val(d.score)]

\* check_day_rollover, nd the day of the month now
check_day_rollover(count, day, nd) ==
    IF nd # day THEN [daily_tests_count |-> 0, current_day |-> nd]
    ELSE [daily_tests_count |-> count, current_day |-> day]

\* the row handle_context_change writes for the session it closes
session_row(session) ==
    [ band |-> session.band, pci |-> session.pci, enodeb |-> session.enodeb,
      total_score |-> session.total_score,
      sample_count |-> session.sample_count ]

new_session(d) ==
    [ band |-> d.band, pci |-> d.pci, enodeb |-> d.enodeb,
      total_score |-> 0, total_sinr |-> 0, sample_count |-> 0 ]

\* handle_context_change: the CELL_HISTORY row it leaves as the latest one
\* (rows is the latest row so far) and the session it opens
context_change_keeps_session(session, rows, d) ==
    [ closed |-> IF ~IsNone(session) THEN Some(session_row(Val(session)))
                 ELSE rows,
      session |-> IF ~IsNone(session) THEN session
                  ELSE Some(new_session(d)) ]

handle_context_change(session, rows, d) ==
    [ closed |-> IF ~IsNone(session) THEN Some(session_row(Val(session)))
                 ELSE rows,
      session |-> Some(new_session(d)) ]

update_session_skipped(session, s, d) ==
    session

\* update_session
update_session(session, s, d) ==
    IF IsNone(session) THEN session
    ELSE LET cs == Val(session) IN
         IF cs.sample_count >= SessionCap THEN session
         ELSE Some([cs EXCEPT !.total_score = @ + s,
                              !.total_sinr = @ + (IF IsNone(d.sinr) THEN 0
                                                  ELSE Val(d.sinr)),
                              !.sample_count = @ + 1])

\* run_forensic_download(duration=10) or run_speedtest(): the second is
\* called only when the first gave nothing
probe_result(forensic, speedtest) ==
    IF ~IsNone(forensic) THEN forensic ELSE speedtest

probe_due_ignores_cap(count, ts, psi) ==
    \/ ts > BASELINE_INTERVAL_SECONDS
    \/ (psi.n > PSI_TRIGGER_THRESHOLD * psi.d /\ ts > COOLDOWN_SECONDS)

probe_due_ignores_cooldown(count, ts, psi) ==
    IF count >= MAX_DAILY_tests THEN FALSE
    ELSE \/ ts > BASELINE_INTERVAL_SECONDS
         \/ psi.n > PSI_TRIGGER_THRESHOLD * psi.d

\* execute_speedtest_if_needed, lines 262-264: whether a throughput probe
\* is started.  ts is time.time() - last_speedtest_time, psi a fraction.
probe_due(count, ts, psi) ==
    IF count >= MAX_DAILY_tests THEN FALSE
    ELSE \/ ts > BASELINE_INTERVAL_SECONDS
         \/ (psi.n > PSI_TRIGGER_THRESHOLD * psi.d /\ ts > COOLDOWN_SECONDS)

budget_charged_on_failure(count, ts, psi, res) ==
    IF probe_due(count, ts, psi)
    THEN [daily_tests_count |-> count + 1, since_speedtest |-> 0, sr |-> res]
    ELSE [daily_tests_count |-> count, since_speedtest |-> ts, sr |-> None]

\* execute_speedtest_if_needed: the budget it leaves and the value it
\* returns, res being what the probe of line 265 gives if it is started
execute_speedtest_if_needed(count, ts, psi, res) ==
    IF probe_due(count, ts, psi) /\ Truthy(res)
    THEN [daily_tests_count |-> count + 1, since_speedtest |-> 0, sr |-> res]
    ELSE [daily_tests_count |-> count, since_speedtest |-> ts, sr |-> None]

network_dict_forgets_throughput(sr, ping_res, ld, ll) ==
    IF ~IsNone(sr)
    THEN LET r == Val(sr) IN
         [ down_mbps |-> r.download_mbps,
           ramp_up_ratio |-> r.ramp_up_ratio,
           latency |-> ll,
           jitter |-> IF IsNone(ping_res) THEN 0 ELSE Val(ping_res).jitter,
           packet_loss |-> IF IsNone(ping_res) THEN 0
                           ELSE Val(ping_res).packet_loss,
           consistency_score |-> Get(r, "consistency_score", 50),
           latency_under_load_diff |-> Get(r, "latency_under_load_diff", 0),
           shapes |-> Get(r, "shapes", <<>>) ]
    ELSE [ down_mbps |-> 0,
           ramp_up_ratio |-> 100,
           latency |-> ll,
           jitter |-> IF IsNone(ping_res) THEN 0 ELSE Val(ping_res).jitter,
           packet_loss |-> IF IsNone(ping_res) THEN 0
                           ELSE Val(ping_res).packet_loss,
           consistency_score |-> 50,
           latency_under_load_diff |-> 0,
           shapes |-> <<>> ]

\* the network dict process_window hands to analyze (lines 241-250)
network_dict(sr, ping_res, ld, ll) ==
    IF ~IsNone(sr)
    THEN LET r == Val(sr) IN
         [ down_mbps |-> r.download_mbps,
           ramp_up_ratio |-> r.ramp_up_ratio,
           latency |-> ll,
           jitter |-> IF IsNone(ping_res) THEN 0 ELSE Val(ping_res).jitter,
           packet_loss |-> IF IsNone(ping_res) THEN 0
                           ELSE Val(ping_res).packet_loss,
           consistency_score |-> Get(r, "consistency_score", 50),
           latency_under_load_diff |-> Get(r, "latency_under_load_diff", 0),
           shapes |-> Get(r, "shapes", <<>>) ]
    ELSE [ down_mbps |-> ld,
           ramp_up_ratio |-> 100,
           latency |-> ll,
           jitter |-> IF IsNone(ping_res) THEN 0 ELSE Val(ping_res).jitter,
           packet_loss |-> IF IsNone(ping_res) THEN 0
                           ELSE Val(ping_res).packet_loss,
           consistency_score |-> 50,
           latency_under_load_diff |-> 0,
           shapes |-> <<>> ]

\* get_history_analysis.  is_stable_hour is decided by the hours and the
\* scores of the stored rows, which the store here does not keep: it is an
\* input.  monthly_bytes is not followed.
get_history_analysis(store, stable) ==
    [ is_stable_hour |-> stable, policy_count |-> store.policy_count,
      monthly_bytes |-> 0 ]

\* the row log_observation appends (the fields the model follows)
observation_row(d, vals, down, ping_res, forensics) ==
    [ band |-> d.band, pci |-> d.pci, enodeb |-> d.enodeb,
      samples |-> Len(vals), down_mbps |-> down,
      verdict |-> forensics.verdict ]

store_append_counts_downgraded(store, row) ==
    [ policy_count |-> IF \/ StartsWithPolicy(row.verdict)
                          \/ row.verdict = VERDICT_LOW_CONFIDENCE
                       THEN Min2(store.policy_count + 1, 3)
                       ELSE store.policy_count,
      rows |-> Min2(store.rows + 1, MaxRows),
      last |-> Some(row) ]

\* the observation store after a row is appended; the Policy rows are
\* counted up to 3, the value is_confident compares the count with
store_append(store, row) ==
    [ policy_count |-> IF StartsWithPolicy(row.verdict)
                       THEN Min2(store.policy_count + 1, 3)
                       ELSE store.policy_count,
      rows |-> Min2(store.rows + 1, MaxRows),
      last |-> Some(row) ]

\* what a tick that ran no classification cycle leaves in cycle
NoCycle ==
    [ ran |-> FALSE, count_before |-> 0, ts |-> 0, psi_high |-> FALSE,
      started |-> FALSE, succeeded |-> FALSE, ld |-> 0, down_used |-> 0,
      ping_res |-> None, nw |-> None ]

----------------------------------------------------------------------------
(* The world around the Monitor: what the modem, the clock and the probes  *)
(* can answer.                                                             *)

\* Monitor.provider.get_signal_metrics(): a snapshot (the modem stays on one
\* cell), or None
CellA ==
    [ band |-> Some("B3"), pci |-> Some(1), enodeb |-> Some(100),
      score |-> Some(80), sinr |-> Some(10) ]

\* the same cell when the modem reports no signal figures
CellANoScore ==
    [ band |-> Some("B3"), pci |-> Some(1), enodeb |-> Some(100),
      score |-> None, sinr |-> None ]

\* another cell, no signal figures either
CellBNoScore ==
    [ band |-> Some("B7"), pci |-> Some(2), enodeb |-> Some(200),
      score |-> None, sinr |-> None ]

\* The world is part of the scenario args names: "budget" (one cell, long
\* waits, probes that may succeed), "cells" (the modem loses and regains
\* its signal figures, so the key changes; the polls follow closely, the
\* throughput probes fail) or "roaming" (as "cells", but the modem never
\* has signal figures and moves between two cells).
World == Get(args, "world", "budget")

Snapshots ==
    IF World = "cells" THEN {CellA, CellANoScore}
    ELSE IF World = "roaming" THEN {CellANoScore, CellBNoScore}
    ELSE {CellA}

\* run_ping(): None, or its result dict
PingResults ==
    IF World # "budget" THEN {None} ELSE
    { None, Some([avg_rtt |-> 400, jitter |-> 5, packet_loss |-> 0]) }

\* run_forensic_download(duration=10): None, or the aggregated metrics
ForensicResults ==
    IF World \notin {"budget", "live"} THEN {None} ELSE
    { None,
      Some([ download_mbps |-> 20, upload_mbps |-> 0, ramp_up_ratio |-> 100,
             consistency_score |-> 90, shapes |-> <<"plateau", "plateau">>,
             latency_under_load_diff |-> 30 ]) }

\* run_speedtest(): None, or the speedtest dict
SpeedtestResults ==
    IF World # "budget" THEN {None} ELSE
    { None,
      Some([ download_mbps |-> 6, upload_mbps |-> 2, ramp_up_ratio |-> 100 ]) }

\* datetime.now().day
Days == IF World # "budget" THEN {1} ELSE 1..DaysInMonth

\* seconds from one tick to the next
SleepSeconds ==
    IF World = "live" THEN {BASELINE_INTERVAL_SECONDS}
    ELSE IF World # "budget" THEN {QuickSleep, WINDOW_SECONDS}
    ELSE {ShortSleep, BASELINE_INTERVAL_SECONDS}

----------------------------------------------------------------------------
(* Monitor.__init__ and the module globals *)

\* run_forensic_download is not running and no latency thread exists
InitProbeState ==
    /\ probe = [ pc |-> "idle", url |-> 0, samples |-> None, shape |-> None,
                 dl_res |-> None, results |-> <<>>, measured |-> <<>>,
                 ret |-> None ]
    /\ ping_threads = {}

\* the three threads of __main__ have just been started, state_lock is free
InitLockState ==
    /\ state_lock = None
    /\ thread_pc = [ startup |-> "probe", poll |-> "read", http |-> "accept" ]

InitMonitorState ==
    /\ InitProbeState
    /\ InitLockState
    /\ initial_pc = "start"
    /\ windows = EmptyDict
    /\ current_key = None
    /\ since_change = 0
    /\ since_speedtest = SpeedtestAge(BASELINE_INTERVAL_SECONDS + 1)
    /\ daily_tests_count = 0
    /\ current_day = 1
    /\ current_session = None
    /\ last_speed_result = EmptyDict
    /\ latest_state = [ down_mbps |-> 0, verdict |-> "Initializing",
                        band |-> None, pci |-> None, enodeb |-> None,
                        score |-> None ]
    /\ observations = [policy_count |-> 0, rows |-> 0, last |-> None]
    /\ cell_sessions = None
    /\ cycle = NoCycle
    /\ ticks_on_key = 0
    /\ polled = None
    /\ ticks_since_cycle = None

Init ==
    /\ args = [fn |-> "Monitor.run"]
    /\ ret = None
    /\ InitMonitorState

tick_enter_short_window(d, nd, dt) ==
    LET roll == check_day_rollover(daily_tests_count, current_day, nd)
        ks == get_key_and_score(d)
        changed == Some(ks.key) # current_key
        w0 == IF ks.key \in DOMAIN windows THEN windows[ks.key] ELSE <<>>
        hc == IF changed
              THEN handle_context_change(current_session, cell_sessions, d)
              ELSE [closed |-> cell_sessions, session |-> current_session]
        opened == hc.session
    IN  [ roll |-> roll, key |-> ks.key, score |-> ks.score,
          changed |-> changed,
          closed |-> hc.closed,
          since_change |-> IF changed THEN 0
                           ELSE ChangeAge(since_change + dt),
          ts |-> SpeedtestAge(since_speedtest + dt),
          vals |-> IF Len(w0) < MIN_SAMPLES - 1 THEN Append(w0, ks.score)
                   ELSE Append(Tail(w0), ks.score),
          session |-> update_session(opened, ks.score, d) ]

tick_enter_fresh_window(d, nd, dt) ==
    LET roll == check_day_rollover(daily_tests_count, current_day, nd)
        ks == get_key_and_score(d)
        changed == Some(ks.key) # current_key
        w0 == IF ks.key \in DOMAIN windows /\ ~changed THEN windows[ks.key]
              ELSE <<>>
        hc == IF changed
              THEN handle_context_change(current_session, cell_sessions, d)
              ELSE [closed |-> cell_sessions, session |-> current_session]
        opened == hc.session
    IN  [ roll |-> roll, key |-> ks.key, score |-> ks.score,
          changed |-> changed,
          closed |-> hc.closed,
          since_change |-> IF changed THEN 0
                           ELSE ChangeAge(since_change + dt),
          ts |-> SpeedtestAge(since_speedtest + dt),
          vals |-> Append(w0, ks.score),
          session |-> update_session(opened, ks.score, d) ]

\* tick up to update_live_state (lines 193-200) on snapshot d, dt seconds
\* after the tick before
tick_enter(d, nd, dt) ==
    LET roll == check_day_rollover(daily_tests_count, current_day, nd)
        ks == get_key_and_score(d)
        changed == Some(ks.key) # current_key
        w0 == IF ks.key \in DOMAIN windows THEN windows[ks.key] ELSE <<>>
        hc == IF changed
              THEN handle_context_change(current_session, cell_sessions, d)
              ELSE [closed |-> cell_sessions, session |-> current_session]
        opened == hc.session
    IN  [ roll |-> roll, key |-> ks.key, score |-> ks.score,
          changed |-> changed,
          closed |-> hc.closed,
          since_change |-> IF changed THEN 0
                           ELSE ChangeAge(since_change + dt),
          ts |-> SpeedtestAge(since_speedtest + dt),
          vals |-> Append(w0, ks.score),
          session |-> update_session(opened, ks.score, d) ]

\* update_live_state (the fields the model follows)
update_live_state(state, d) ==
    [ state EXCEPT !.band = d.band, !.pci = d.pci, !.enodeb = d.enodeb,
                   !.score = d.score ]

\* the part of tick every snapshot goes through
TickCommon(d, e) ==
    /\ current_day' = e.roll.current_day
    /\ current_key' = Some(e.key)
    /\ since_change' = e.since_change
    /\ current_session' = e.session
    /\ cell_sessions' = e.closed
    /\ ticks_on_key' = IF e.changed THEN 1
                       ELSE Min2(ticks_on_key + 1, SessionCap)
    /\ polled' = Some(d)
    /\ UNCHANGED <<args, ret, initial_pc, probe_vars, lock_vars>>

\* tick from line 197 on when process_window returns at line 232 or is
\* not called
TickNoCycle(d, e) ==
    /\ TickCommon(d, e)
    /\ windows' = [k \in DOMAIN windows \cup {e.key} |->
                      IF k = e.key THEN e.vals ELSE windows[k]]
    /\ daily_tests_count' = e.roll.daily_tests_count
    /\ latest_state' = update_live_state(latest_state, d)
    /\ since_speedtest' = e.ts
    /\ cycle' = NoCycle
    /\ ticks_since_cycle' =
         IF e.changed \/ IsNone(ticks_since_cycle) THEN None
         ELSE Some(Min2(Val(ticks_since_cycle) + 1, MaxWindow))
    /\ UNCHANGED <<last_speed_result, observations>>

window_kept(w, key) ==
    [k \in DOMAIN w \cup {key} |-> IF k \in DOMAIN w THEN w[k] ELSE <<>>]

clear_every_window(w, key) ==
    [k \in DOMAIN w \cup {key} |-> <<>>]

\* self.windows[key].clear()
clear_window(w, key) ==
    [k \in DOMAIN w \cup {key} |-> IF k = key THEN <<>> ELSE w[k]]

\* process_window from line 250 on, with log_observation: c holds what
\* lines 234-250 computed
TickCycle(d, e, c) ==
    LET lsr == IF Truthy(c.b.sr) THEN Val(c.b.sr) ELSE last_speed_result
        down == Get(lsr, "download_mbps", 0)
    IN  /\ TickCommon(d, e)
        /\ \E analysis \in analyze(Some(d), Some(c.nw), Some(c.history)) :
             LET row == observation_row(d, e.vals, down, c.ping_res, analysis)
             IN  /\ observations' = store_append(observations, row)
                 /\ latest_state' =
                      [ update_live_state(latest_state, d) EXCEPT
                          !.down_mbps = down,
                          !.verdict = analysis.verdict ]
        /\ windows' = clear_window(windows, e.key)
        /\ daily_tests_count' = c.b.daily_tests_count
        /\ since_speedtest' = c.b.since_speedtest
        /\ last_speed_result' = lsr
        /\ ticks_since_cycle' = Some(0)
        /\ cycle' = [ ran |-> TRUE,
                      count_before |-> e.roll.daily_tests_count,
                      ts |-> e.ts,
                      psi_high |-> c.psi.n > PSI_TRIGGER_THRESHOLD * c.psi.d,
                      started |-> c.due,
                      succeeded |-> Truthy(c.b.sr),
                      ld |-> c.ld,
                      down_used |-> c.nw.down_mbps,
                      ping_res |-> c.ping_res,
                      nw |-> Some(c.nw) ]

\* process_window, lines 234-250: the probes and the network dict.  res is
\* what the throughput probe gives if execute_speedtest_if_needed starts it.
window_measurements(e, ping_res, res, stable) ==
    LET ld == Get(last_speed_result, "download_mbps", 0)
        ll == IF IsNone(ping_res) THEN 0 ELSE Val(ping_res).avg_rtt
        psi == calculate_simple_psi(Some(Mean(e.vals)), ld, Some(ll))
        b == execute_speedtest_if_needed(e.roll.daily_tests_count, e.ts,
                                         psi, res)
    IN  [ ping_res |-> ping_res, ld |-> ld, psi |-> psi,
          due |-> probe_due(e.roll.daily_tests_count, e.ts, psi),
          b |-> b,
          nw |-> network_dict(b.sr, ping_res, ld, ll),
          history |-> get_history_analysis(observations, stable) ]

\* whether the logged rows make this hour of the day a stable one
StableHours ==
    IF World # "budget" THEN {FALSE} ELSE BOOLEAN

process_window_any_samples(d, e) ==
    \E ping_res \in PingResults, stable \in StableHours :
      IF window_measurements(e, ping_res, None, stable).due
      THEN \E forensic \in ForensicResults,
              speedtest \in SpeedtestResults :
             \E c \in {window_measurements(e, ping_res,
                         probe_result(forensic, speedtest), stable)} :
               TickCycle(d, e, c)
      ELSE \E c \in {window_measurements(e, ping_res, None, stable)} :
               TickCycle(d, e, c)

\* process_window (lines 230-259) on the window vals of tick_enter
process_window(d, e) ==
    IF Len(e.vals) < MIN_SAMPLES THEN TickNoCycle(d, e)
    ELSE \E ping_res \in PingResults, stable \in StableHours :
           IF window_measurements(e, ping_res, None, stable).due
           THEN \E forensic \in ForensicResults,
                   speedtest \in SpeedtestResults :
                  \E c \in {window_measurements(e, ping_res,
                              probe_result(forensic, speedtest), stable)} :
                    TickCycle(d, e, c)
           ELSE \E c \in {window_measurements(e, ping_res, None, stable)} :
                    TickCycle(d, e, c)

\* what get_signal_metrics() can give a tick
Polls ==
    IF World # "budget" THEN {None} \cup {Some(s) : s \in Snapshots}
    ELSE {Some(s) : s \in Snapshots}

tick_skipped_clears_live_score(dt) ==
    /\ since_change' = ChangeAge(since_change + dt)
    /\ since_speedtest' = SpeedtestAge(since_speedtest + dt)
    /\ cycle' = NoCycle
    /\ polled' = None
    /\ latest_state' = [latest_state EXCEPT !.score = None]
    /\ UNCHANGED <<probe_vars, lock_vars>>
    /\ UNCHANGED <<args, ret, initial_pc, windows, current_key,
                   daily_tests_count, current_day, current_session,
                   last_speed_result, observations, cell_sessions,
                   ticks_on_key, ticks_since_cycle>>

\* tick returning at line 194: no snapshot.  The clock has moved on.
TickSkipped(dt) ==
    /\ since_change' = ChangeAge(since_change + dt)
    /\ since_speedtest' = SpeedtestAge(since_speedtest + dt)
    /\ cycle' = NoCycle
    /\ polled' = None
    /\ UNCHANGED <<probe_vars, lock_vars>>
    /\ UNCHANGED <<args, ret, initial_pc, windows, current_key,
                   daily_tests_count, current_day, current_session,
                   last_speed_result, latest_state, observations,
                   cell_sessions, ticks_on_key, ticks_since_cycle>>

\* One turn of Monitor.run: tick, dt seconds after the tick before it
\* (time.sleep(POLL_SECONDS) and what the ticks themselves take)
Tick ==
    \E data \in Polls, dt \in SleepSeconds :
      IF IsNone(data)
      THEN TickSkipped(dt)
      ELSE \E nd \in Days :
             \E e \in {tick_enter(Val(data), nd, dt)} :
               /\ Len(e.vals) <= MaxWindow
               /\ IF e.since_change >= WINDOW_SECONDS
                  THEN process_window(Val(data), e)
                  ELSE TickNoCycle(Val(data), e)

\* run_initial_speedtest, the startup thread
InitialSpeedtest ==
    /\ initial_pc = "start"
    /\ initial_pc' = "done"
    /\ \E forensic \in ForensicResults, speedtest \in SpeedtestResults :
         LET res == probe_result(forensic, speedtest) IN
         IF ~IsNone(res)
         THEN /\ last_speed_result' = Val(res)
              /\ latest_state' =
                   [latest_state EXCEPT
                      !.down_mbps = Get(Val(res), "download_mbps", 0)]
         ELSE UNCHANGED <<last_speed_result, latest_state>>
    /\ UNCHANGED <<args, ret, windows, current_key, since_change,
                   since_speedtest, daily_tests_count, current_day,
                   current_session, observations, cell_sessions, cycle,
                   ticks_on_key, polled, ticks_since_cycle, probe_vars,
                   lock_vars>>

Next == Tick \/ InitialSpeedtest

Spec == Init /\ [][Next]_vars

\* the Monitor in the world of changing cells
InitCells ==
    /\ args = [fn |-> "Monitor.run", world |-> "cells"]
    /\ ret = None
    /\ InitMonitorState

SpecCells == InitCells /\ [][Next]_vars

\* the Monitor on a modem that reports no score while the cell changes
InitRoaming ==
    /\ args = [fn |-> "Monitor.run", world |-> "roaming"]
    /\ ret = None
    /\ InitMonitorState

SpecRoaming == InitRoaming /\ [][Next]_vars

----------------------------------------------------------------------------
(* The functions called on their own: one call per behaviour. *)

\* a dict from a function of optional values: the keys that are present
MkDict(f) == [k \in {x \in DOMAIN f : ~IsNone(f[x])} |-> Val(f[k])]

ScoreSamples == {20, 35, 45, 60, 80, 90}

SignalInputs ==
    {None, Some(EmptyDict), Some([score |-> None])}
        \cup {Some([score |-> Some(s)]) : s \in ScoreSamples}

ShapeInputs ==
    { None, Some(<<"plateau">>), Some(<<"plateau", "logarithmic", "plateau">>),
      Some(<<"linear_climb">>), Some(<<"plateau", "linear_climb">>) }

NetworkInputs ==
    {None} \cup
    { Some(MkDict([ down_mbps |-> d, jitter |-> j, packet_loss |-> pl,
                    ramp_up_ratio |-> ru, consistency_score |-> cs,
                    latency_under_load_diff |-> ld, shapes |-> sh ])) :
        d \in {None, Some(5), Some(20), Some(60)},
        j \in {None, Some(50), Some(150)},
        pl \in {None, Some(5)},
        ru \in {None, Some(150)},
        cs \in {None, Some(70), Some(90)},
        ld \in {None, Some(30), Some(100), Some(250)},
        sh \in ShapeInputs }

HistoryInputs ==
    { None, Some(EmptyDict),
      Some([is_stable_hour |-> TRUE, policy_count |-> 2]),
      Some([is_stable_hour |-> TRUE, policy_count |-> 3]),
      Some([policy_count |-> 3]) }

AnalyzeArgs ==
    { [fn |-> "analyze", signal_data |-> s, network_data |-> n, history |-> h] :
        s \in SignalInputs, n \in NetworkInputs, h \in HistoryInputs }

RadioArgs ==
    { [fn |-> "calculate_radio", rf_score |-> x] :
        x \in {None} \cup {Some(s) : s \in 0..100} }

PsiArgs ==
    { [fn |-> "calculate_simple_psi", rf_score |-> rf, down_mbps |-> d,
       latency_avg |-> l] :
        rf \in {None} \cup {Some(Frac(n, 1)) : n \in {0, 30, 50, 75, 100}}
                      \cup {Some(Frac(n, 2)) : n \in {101, 145}},
        d \in {-5, 0, 6, 15, 30, 45},
        l \in {None} \cup {Some(x) : x \in {0, 50, 100, 101, 150, 400, 900}} }

InitFunctions ==
    /\ args \in AnalyzeArgs \cup RadioArgs \cup PsiArgs
    /\ ret = None
    /\ InitMonitorState

CallAnalyze ==
    /\ args.fn = "analyze"
    /\ ret = None
    /\ \E out \in analyze(args.signal_data, args.network_data, args.history) :
          ret' = Some(out)
    /\ UNCHANGED <<args, monitor_vars, probe_vars, lock_vars>>

CallRadio ==
    /\ args.fn = "calculate_radio"
    /\ ret = None
    /\ ret' = Some(calculate_radio(args.rf_score))
    /\ UNCHANGED <<args, monitor_vars, probe_vars, lock_vars>>

CallPsi ==
    /\ args.fn = "calculate_simple_psi"
    /\ ret = None
    /\ ret' = Some(calculate_simple_psi(args.rf_score, args.down_mbps,
                                        args.latency_avg))
    /\ UNCHANGED <<args, monitor_vars, probe_vars, lock_vars>>

NextFunctions == CallAnalyze \/ CallRadio \/ CallPsi

SpecFunctions == InitFunctions /\ [][NextFunctions]_vars

----------------------------------------------------------------------------
(* measurements.py: analyze_shape and run_forensic_download.  A download's *)
(* samples are <<elapsed, mbps>> pairs, the elapsed time in half seconds   *)
(* and the rate in whole Mbps.                                             *)

NAME_ERROR == "NameError"

RECURSIVE SumSq(_)
SumSq(s) == IF s = <<>> THEN 0 ELSE Head(s) * Head(s) + SumSq(Tail(s))

\* [s[1] for s in samples]
MbpsValues(samples) == [i \in 1..Len(samples) |-> samples[i][2]]

\* mbps_values[len(mbps_values)//4:]
SteadyState(values) == SubSeq(values, (Len(values) \div 4) + 1, Len(values))

\* statistics.stdev(v) / statistics.mean(v) < 0.15 for a list v of n > 0
\* values with sum S > 0 and sum of squares Q: the two sides squared,
\* stdev^2 = (Q - S^2/n)/(n-1) and mean^2 = S^2/n^2 (stdev is 0 for n = 1)
CvBelowPlateau(v) ==
    LET n == Len(v)
        S == Sum(v)
        Q == SumSq(v)
    IN  IF n = 1 THEN TRUE
        ELSE 10000 * n * (n * Q - S * S) < 225 * (n - 1) * S * S

\* analyze_shape: a label, or NAME_ERROR when the call raises NameError.
\* Line 112 names times, which nothing defines.  Where the statistics
\* module has linear_regression (Python 3.10 on) evaluating the argument
\* raises NameError, which the except clause of line 116 does not catch;
\* where it has not, statistics.linear_regression raises AttributeError
\* first, that is caught, and line 119 returns "logarithmic".
analyze_shape(samples, has_regression) ==
    IF Len(samples) < 4 THEN "uncertain"
    ELSE LET steady_state == SteadyState(MbpsValues(samples))
         IN  IF steady_state = <<>> THEN "uncertain"
             ELSE IF 10 * Sum(steady_state) < Len(steady_state)
             THEN "uncertain"
             ELSE IF CvBelowPlateau(steady_state) THEN "plateau"
             ELSE IF has_regression THEN NAME_ERROR
             ELSE "logarithmic"

\* samples at 0, 0.5, 1, ... seconds with the rates v
Sampled(v) == [i \in 1..Len(v) |-> <<i - 1, v[i]>>]

\* what a download of per_target_duration seconds can collect
DownloadSamples ==
    { Sampled(<<20, 20, 20, 20, 20, 20>>),
      Sampled(<<1, 3, 5, 7, 9, 11>>),
      Sampled(<<1, 12, 18, 21, 23, 24>>),
      Sampled(<<0, 0, 0, 0, 0, 0>>),
      Sampled(<<4, 20, 30>>) }

\* the targets of run_forensic_download
NumTargets == 3

InitProbe ==
    /\ args \in { [fn |-> "run_forensic_download", has_regression |-> b] :
                    b \in BOOLEAN }
    /\ ret = None
    /\ InitMonitorState

\* whether this Python's statistics module has linear_regression
HasRegression == Get(args, "has_regression", TRUE)

\* run_forensic_download is called (lines 169-197)
ProbeStart ==
    /\ probe.pc = "idle"
    /\ probe' = [probe EXCEPT !.pc = "start_thread", !.url = 1]
    /\ UNCHANGED <<args, ret, monitor_vars, ping_threads, lock_vars>>

\* pt.start() for the target probe.url (lines 199-202)
StartPingThread ==
    /\ probe.pc = "start_thread"
    /\ ping_threads' = ping_threads \cup {probe.url}
    /\ probe' = [probe EXCEPT !.pc = "download"]
    /\ UNCHANGED <<args, ret, monitor_vars, lock_vars>>

\* run_single_download gives None: the download raised (lines 154-156)
DownloadFails ==
    /\ probe.pc = "download"
    /\ probe' = [probe EXCEPT !.pc = "join", !.samples = None,
                              !.shape = None, !.dl_res = None,
                              !.measured = Append(@, "failed")]
    /\ UNCHANGED <<args, ret, monitor_vars, ping_threads, lock_vars>>

\* run_single_download collects samples and builds its result (lines
\* 158-167): analyze_shape is called at line 165, outside the try of lines
\* 127-156, so what it raises leaves run_single_download and the loop of
\* run_forensic_download and is caught at line 250, which returns None
DownloadEnds ==
    /\ probe.pc = "download"
    /\ \E samples \in DownloadSamples :
         LET shape == analyze_shape(samples, HasRegression) IN
         IF shape = NAME_ERROR
         THEN probe' = [probe EXCEPT !.pc = "returned",
                                     !.samples = Some(samples),
                                     !.shape = Some(shape),
                                     !.dl_res = None,
                                     !.measured = Append(@, "raised"),
                                     !.ret = None]
         ELSE probe' = [probe EXCEPT !.pc = "join",
                                     !.samples = Some(samples),
                                     !.shape = Some(shape),
                                     !.dl_res = Some([shape |-> shape]),
                                     !.measured = Append(@, "measured")]
    /\ UNCHANGED <<args, ret, monitor_vars, ping_threads, lock_vars>>

\* a run_ping_thread leaves its loop: per_target_duration seconds after it
\* was started, whatever the probe does meanwhile
PingThreadExits ==
    /\ \E t \in ping_threads : ping_threads' = ping_threads \ {t}
    /\ UNCHANGED <<args, ret, monitor_vars, probe, lock_vars>>

\* pt.join() returns (line 206), and lines 208-212
Join ==
    /\ probe.pc = "join"
    /\ probe.url \notin ping_threads
    /\ probe' = [probe EXCEPT
                   !.results = IF ~IsNone(probe.dl_res)
                               THEN Append(@, Val(probe.dl_res)) ELSE @,
                   !.pc = IF probe.url < NumTargets THEN "start_thread"
                          ELSE "aggregate",
                   !.url = IF probe.url < NumTargets THEN @ + 1 ELSE @]
    /\ UNCHANGED <<args, ret, monitor_vars, ping_threads, lock_vars>>

\* lines 214-248: None when no target gave a result, else the aggregate
Aggregate ==
    /\ probe.pc = "aggregate"
    /\ probe' = [probe EXCEPT
                   !.pc = "returned",
                   !.ret = IF probe.results = <<>> THEN None
                           ELSE Some([shapes |->
                                        [i \in 1..Len(probe.results) |->
                                           probe.results[i].shape]])]
    /\ UNCHANGED <<args, ret, monitor_vars, ping_threads, lock_vars>>

NextProbe ==
    \/ ProbeStart \/ StartPingThread \/ DownloadFails \/ DownloadEnds
    \/ PingThreadExits \/ Join \/ Aggregate

SpecProbe == InitProbe /\ [][NextProbe]_vars

----------------------------------------------------------------------------
(* main.py: state_lock and the three threads of __main__ that use it: the   *)
(* startup probe (run_initial_speedtest), the poll loop (Monitor.run) and   *)
(* the HTTP server (ApiHandler, one request at a time).  thread_pc tells    *)
(* what each thread is doing.                                               *)

InitLock ==
    /\ args = [fn |-> "__main__"]
    /\ ret = None
    /\ InitMonitorState

\* thread t goes on to pc
Goto(t, pc) == thread_pc' = [thread_pc EXCEPT ![t] = pc]

\* with state_lock: entered by thread t, which goes on to pc
Acquire(t, pc) ==
    /\ state_lock = None
    /\ state_lock' = Some(t)
    /\ Goto(t, pc)

\* the with block is left by thread t, which goes on to pc
Release(t, pc) ==
    /\ state_lock = Some(t)
    /\ state_lock' = None
    /\ Goto(t, pc)

\* run_initial_speedtest, line 372: the probe, with or without a result
StartupProbes ==
    /\ thread_pc.startup = "probe"
    /\ \E res \in BOOLEAN : Goto("startup", IF res THEN "result_wait"
                                             ELSE "done")
    /\ UNCHANGED <<args, ret, monitor_vars, probe_vars, state_lock>>

\* line 375
StartupLocks ==
    /\ thread_pc.startup = "result_wait"
    /\ Acquire("startup", "result_update")
    /\ UNCHANGED <<args, ret, monitor_vars, probe_vars>>

\* lines 376-380: latest_state.update
StartupUpdates ==
    /\ thread_pc.startup = "result_update"
    /\ Release("startup", "done")
    /\ UNCHANGED <<args, ret, monitor_vars, probe_vars>>

\* tick, lines 193-199: the modem is read; a tick without a snapshot
\* returns and the next one reads again
PollReads ==
    /\ thread_pc.poll = "read"
    /\ Goto("poll", "live_wait")
    /\ UNCHANGED <<args, ret, monitor_vars, probe_vars, state_lock>>

\* update_live_state, line 205
PollLocksLive ==
    /\ thread_pc.poll = "live_wait"
    /\ Acquire("poll", "live_update")
    /\ UNCHANGED <<args, ret, monitor_vars, probe_vars>>

\* line 206: latest_state.update; then the tick ends or process_window
\* goes on to its measurements
PollUpdatesLive ==
    /\ thread_pc.poll = "live_update"
    /\ \E cycle_runs \in BOOLEAN :
         Release("poll", IF cycle_runs THEN "measure" ELSE "read")
    /\ UNCHANGED <<args, ret, monitor_vars, probe_vars>>

\* process_window, lines 234-253: run_ping, the throughput probe
PollMeasures ==
    /\ thread_pc.poll = "measure"
    /\ Goto("poll", "log_write")
    /\ UNCHANGED <<args, ret, monitor_vars, probe_vars, state_lock>>

\* log_observation, lines 158-163: the row is written, the log is read
PollWritesRow ==
    /\ thread_pc.poll = "log_write"
    /\ Goto("poll", "verdict_wait")
    /\ UNCHANGED <<args, ret, monitor_vars, probe_vars, state_lock>>

\* tick, line 197: handle_context_change cannot append its row (lines
\* 221-222 raise OSError).  Nothing between there and the thread's target
\* catches it: the exception ends tick, Monitor.run and the thread.
PollSessionWriteFails ==
    /\ thread_pc.poll = "read"
    /\ Goto("poll", "dead")
    /\ UNCHANGED <<args, ret, monitor_vars, probe_vars, state_lock>>

\* log_observation, lines 158-159: the row cannot be appended (OSError);
\* again nothing catches it and the thread ends
PollRowWriteFails ==
    /\ thread_pc.poll = "log_write"
    /\ Goto("poll", "dead")
    /\ UNCHANGED <<args, ret, monitor_vars, probe_vars, state_lock>>

\* log_observation, line 165
PollLocksVerdict ==
    /\ thread_pc.poll = "verdict_wait"
    /\ Acquire("poll", "verdict_update")
    /\ UNCHANGED <<args, ret, monitor_vars, probe_vars>>

\* lines 166-173: latest_state.update
PollUpdatesVerdict ==
    /\ thread_pc.poll = "verdict_update"
    /\ Release("poll", "read")
    /\ UNCHANGED <<args, ret, monitor_vars, probe_vars>>

\* do_GET, lines 274-275: a request has come in, for /state or not
HttpAccepts ==
    /\ thread_pc.http = "accept"
    /\ \E path \in {"/state", "/history"} :
         Goto("http", IF path = "/state" THEN "state_wait" ELSE "file_read")
    /\ UNCHANGED <<args, ret, monitor_vars, probe_vars, state_lock>>

\* line 276: with state_lock
HttpLocks ==
    /\ thread_pc.http = "state_wait"
    /\ Acquire("http", "state_dumps")
    /\ UNCHANGED <<args, ret, monitor_vars, probe_vars>>

\* send_json, line 272, inside the with block of line 276:
\* json.dumps(latest_state)
HttpDumps ==
    /\ thread_pc.http = "state_dumps"
    /\ Goto("http", "state_send")
    /\ UNCHANGED <<args, ret, monitor_vars, probe_vars, state_lock>>

\* send_json, line 272, still inside the with block: send_response, the
\* headers and wfile.write to the client; then the block is left
HttpSendsState ==
    /\ thread_pc.http = "state_send"
    /\ Release("http", "accept")
    /\ UNCHANGED <<args, ret, monitor_vars, probe_vars>>

\* lines 277-281: the log is read
HttpReadsFile ==
    /\ thread_pc.http = "file_read"
    /\ Goto("http", "file_send")
    /\ UNCHANGED <<args, ret, monitor_vars, probe_vars, state_lock>>

\* send_json outside any with block
HttpSendsFile ==
    /\ thread_pc.http = "file_send"
    /\ Goto("http", "accept")
    /\ UNCHANGED <<args, ret, monitor_vars, probe_vars, state_lock>>

NextLock ==
    \/ StartupProbes \/ StartupLocks \/ StartupUpdates
    \/ PollReads \/ PollLocksLive \/ PollUpdatesLive \/ PollMeasures
    \/ PollWritesRow \/ PollLocksVerdict \/ PollUpdatesVerdict
    \/ PollSessionWriteFails \/ PollRowWriteFails
    \/ HttpAccepts \/ HttpLocks \/ HttpDumps \/ HttpSendsState
    \/ HttpReadsFile \/ HttpSendsFile

SpecLock == InitLock /\ [][NextLock]_vars

\* where a thread reads or writes latest_state
TouchesLatestState ==
    {"result_update", "live_update", "verdict_update", "state_dumps"}

\* where a thread waits for the network, the modem, a client or a file
Blocking ==
    {"probe", "read", "measure", "log_write", "accept", "state_send",
     "file_read", "file_send"}

----------------------------------------------------------------------------
(* Monitor.run as a loop that never ends: "while True: self.tick();        *)
(* time.sleep(POLL_SECONDS)" runs tick again and again for as long as no   *)
(* tick raises.  Tick can always be taken, so that weak fairness of Tick,  *)
(* WF_vars(Tick), is the same as Tick being taken again and again; the     *)
(* second form spares the evaluation of ENABLED in every state.  The       *)
(* worlds are that of SpecRoaming, with its short sleeps, and one of a     *)
(* single cell where a read may give no snapshot, the throughput probe may *)
(* succeed and a tick comes every BASELINE_INTERVAL_SECONDS, so that the   *)
(* day's tests run out.                                                    *)

InitLive ==
    /\ args \in { [fn |-> "Monitor.run", world |-> "live"],
                  [fn |-> "Monitor.run", world |-> "roaming"] }
    /\ ret = None
    /\ InitMonitorState

SpecLive == InitLive /\ [][Next]_vars /\ []<><<Tick>>_vars

----------------------------------------------------------------------------
(* main.py: get_history_analysis over the rows of LOG_CSV.  A row is its   *)
(* age in whole hours (so that it is of the current hour of the day when   *)
(* the age is a multiple of 24), its avg_score, its verdict and its        *)
(* data_bytes.                                                             *)

MaxHistory == 6

\* what get_history_analysis returns at lines 113 and 128
NeutralHistory ==
    [ is_stable_hour |-> FALSE, policy_count |-> 0, monthly_bytes |-> 0 ]

process_row_any_hour(row) ==
    LET recent == row.age_hours < 7 * 24
    IN  [ bytes |-> IF row.age_hours \div 24 <= 30 THEN row.data_bytes
                    ELSE 0,
          score |-> IF recent THEN row.avg_score ELSE None,
          policy |-> recent /\ StartsWithPolicy(row.verdict) ]

\* _process_row: ts > recent_cutoff is an age under seven days, dt.hour ==
\* current_hour an age that is a whole number of days
_process_row(row) ==
    LET recent == row.age_hours < 7 * 24
    IN  [ bytes |-> IF row.age_hours \div 24 <= 30 THEN row.data_bytes
                    ELSE 0,
          score |-> IF recent /\ row.age_hours % 24 = 0 THEN row.avg_score
                    ELSE None,
          policy |-> recent /\ StartsWithPolicy(row.verdict) ]

\* hour_scores, policy_count and monthly_bytes after the loop of lines
\* 120-124
RECURSIVE ScanRows(_)
ScanRows(rows) ==
    IF rows = <<>>
    THEN [ hour_scores |-> <<>>, policy_count |-> 0, monthly_bytes |-> 0 ]
    ELSE LET acc == ScanRows(SubSeq(rows, 1, Len(rows) - 1))
             p == _process_row(rows[Len(rows)])
         IN  [ hour_scores |-> IF IsNone(p.score) THEN acc.hour_scores
                               ELSE Append(acc.hour_scores, Val(p.score)),
               policy_count |-> acc.policy_count + (IF p.policy THEN 1 ELSE 0),
               monthly_bytes |-> acc.monthly_bytes + p.bytes ]

\* statistics.pstdev(v) < 10 for a list v of n > 0 numbers: the variance
\* (n * sum(x^2) - sum(x)^2) / n^2 is under 100
PstdevBelowTen(v) ==
    Len(v) * SumSq(v) - Sum(v) * Sum(v) < 100 * Len(v) * Len(v)

\* get_history_analysis; exists is os.path.exists(LOG_CSV), readable
\* whether lines 115-116 read the file without an exception
get_history_analysis_rows(exists, readable, rows) ==
    IF ~exists THEN NeutralHistory
    ELSE IF ~readable THEN NeutralHistory
    ELSE LET acc == ScanRows(rows)
         IN  [ is_stable_hour |-> /\ Len(acc.hour_scores) > 5
                                  /\ PstdevBelowTen(acc.hour_scores),
               policy_count |-> acc.policy_count,
               monthly_bytes |-> acc.monthly_bytes ]

\* the rows a log may hold: a score of this hour of today, another an hour
\* old, a Policy row of yesterday without a score, a row of this hour seven
\* days old.  log_observation appends, so that a log has its oldest rows
\* first.
LogRows ==
    { [ age_hours |-> 0, avg_score |-> Some(40), verdict |-> VERDICT_RADIO,
        data_bytes |-> 1 ],
      [ age_hours |-> 0, avg_score |-> Some(60), verdict |-> VERDICT_RADIO,
        data_bytes |-> 1 ],
      [ age_hours |-> 1, avg_score |-> Some(40), verdict |-> VERDICT_RADIO,
        data_bytes |-> 1 ],
      [ age_hours |-> 24, avg_score |-> None, verdict |-> VERDICT_POLICY,
        data_bytes |-> 1 ],
      [ age_hours |-> 7 * 24, avg_score |-> Some(40),
        verdict |-> VERDICT_POLICY, data_bytes |-> 1 ] }

HistoryArgs ==
    { [ fn |-> "get_history_analysis", exists |-> x, readable |-> r,
        rows |-> rows ] :
        x \in BOOLEAN, r \in BOOLEAN,
        rows \in { l \in UNION { [1..n -> LogRows] : n \in 0..MaxHistory } :
                     \A i \in 1..Len(l) - 1 :
                        l[i].age_hours >= l[i + 1].age_hours } }

InitHistory ==
    /\ args \in HistoryArgs
    /\ ret = None
    /\ InitMonitorState

CallHistory ==
    /\ args.fn = "get_history_analysis"
    /\ ret = None
    /\ ret' = Some(get_history_analysis_rows(args.exists, args.readable,
                                             args.rows))
    /\ UNCHANGED <<args, monitor_vars, probe_vars, lock_vars>>

NextHistory == CallHistory

SpecHistory == InitHistory /\ [][NextHistory]_vars

----------------------------------------------------------------------------
(* Properties of ForensicsEngine.analyze and calculate_simple_psi,          *)
(* checked under SpecFunctions.                                             *)

AnalyzeCall == args.fn = "analyze" /\ ~IsNone(args.network_data)

AnalyzeReturned == AnalyzeCall /\ ~IsNone(ret)

Core == analyze_core(args.signal_data, args.network_data, args.history)

ReturnedSum ==
    Val(ret).radio_likelihood + Val(ret).congestion_likelihood
        + Val(ret).policy_likelihood

RawSum(a) == a.radio + a.congestion + a.policy

\* normalisation left the three values as they were
Unscaled(a) ==
    /\ a.n.r = a.radio * a.n.den
    /\ a.n.c = a.congestion * a.n.den
    /\ a.n.p = a.policy * a.n.den

\* The result does not hang on a float's last bit: no likelihood lies half
\* way between two hundredths and no two likelihoods are equal.
DecidedExactly(a) ==
    /\ \A x \in {a.n.r, a.n.c, a.n.p} : Cardinality(Round2(x, a.n.den)) = 1
    /\ a.n.r # a.n.c /\ a.n.c # a.n.p /\ a.n.r # a.n.p

\* C1 as claimed: the three returned (rounded) likelihoods sum to at most
\* 0.95, and a raw sum <= 0.95 is left unchanged by normalisation.  Stated
\* over the results that are decided exactly, so that a violation is a
\* result the code returns.
C1_ReturnedSumAtMost095 ==
    AnalyzeReturned =>
        LET a == Core IN
        DecidedExactly(a) =>
            /\ ReturnedSum <= 95
            /\ (RawSum(a) <= Lit(95) => Unscaled(a))

\* C1 amended: the likelihoods sum to at most 0.95 after normalisation and
\* before rounding; the returned values, each rounded to 2 decimals on its
\* own, sum to at most 0.96; a raw sum <= 0.95 is left unchanged.
C1_NormalizedSumCapped ==
    AnalyzeCall =>
        LET a == Core IN
        /\ a.n.r + a.n.c + a.n.p <= Lit(95) * a.n.den
        /\ (RawSum(a) <= Lit(95) => Unscaled(a))
        /\ (RawSum(a) > Lit(95) => a.n.r + a.n.c + a.n.p = Lit(95) * a.n.den)
        /\ (~IsNone(ret) => ReturnedSum <= 96)

\* a normalised result whose rounded values sum to 0.96
C1_Witness ==
    /\ AnalyzeReturned
    /\ RawSum(Core) > Lit(95)
    /\ DecidedExactly(Core)
    /\ ReturnedSum = 96

\* the label of the first of radio, congestion, policy that equals the
\* maximum m, or the inconclusive label when m < 0.4
ReferenceVerdict(n) ==
    LET v == <<n.r, n.c, n.p>>
        label == <<VERDICT_RADIO, VERDICT_CONGESTION, VERDICT_POLICY>>
        m == CHOOSE x \in {v[1], v[2], v[3]} : \A i \in 1..3 : v[i] <= x
        first == CHOOSE i \in 1..3 :
                    v[i] = m /\ \A j \in 1..(i - 1) : v[j] # m
    IN  IF m < Lit(40) * n.den THEN VERDICT_INCONCLUSIVE ELSE label[first]

\* C5: the selected verdict is the reference function of the normalised
\* likelihoods: inconclusive below 0.4, else the first of radio,
\* congestion, policy that equals the maximum; never 'Mixed Signals'.
C5_VerdictIsReference ==
    AnalyzeCall =>
        LET a == Core IN
        /\ a.selected = ReferenceVerdict(a.n)
        /\ a.selected # VERDICT_MIXED
        /\ (~IsNone(ret) => Val(ret).verdict # VERDICT_MIXED)

\* radio and policy tied at the maximum, at or above 0.4, returned as
\* radio's label
C5_Witness ==
    /\ AnalyzeReturned
    /\ LET a == Core IN
        /\ a.n.r >= Lit(40) * a.n.den
        /\ a.n.r = a.n.p
        /\ a.n.r >= a.n.c
    /\ Val(ret).verdict = VERDICT_RADIO

HistoryCount ==
    IF IsNone(args.history) THEN 0
    ELSE Get(Val(args.history), "policy_count", 0)

\* C6: the policy verdict is returned only with a history whose
\* policy_count >= 3; a selected policy verdict without one is returned as
\* 'Observed, low confidence'; any other selected verdict is returned as is.
C6_ConfidenceGate ==
    AnalyzeReturned =>
        LET a == Core IN
        /\ (Val(ret).verdict = VERDICT_POLICY =>
                ~IsNone(args.history) /\ HistoryCount >= 3)
        /\ (a.selected = VERDICT_POLICY /\ HistoryCount < 3 =>
                Val(ret).verdict = VERDICT_LOW_CONFIDENCE)
        /\ (a.selected # VERDICT_POLICY => Val(ret).verdict = a.selected)

\* a policy verdict downgraded for a history with policy_count = 2
C6_Witness ==
    /\ AnalyzeReturned
    /\ Core.selected = VERDICT_POLICY
    /\ ~IsNone(args.history)
    /\ HistoryCount = 2
    /\ Val(ret).verdict = VERDICT_LOW_CONFIDENCE

RadioCall == args.fn = "calculate_radio"

\* the table of section 4.1, for a known score
RadioTable(s) ==
    CASE s \in 0..29 -> Lit(95)
      [] s \in 30..49 -> Lit(80)
      [] s \in 50..69 -> Lit(40)
      [] s \in 70..85 -> 0
      [] s \in 86..100 -> Lit(5)

\* C7 as claimed: the radio likelihood follows the table, is non-increasing
\* in rf_score over [0,100], and is 0.10 for an unknown score.
C7_RadioNonIncreasing ==
    RadioCall /\ ~IsNone(ret) =>
        IF IsNone(args.rf_score) THEN Val(ret) = Lit(10)
        ELSE /\ Val(ret) = RadioTable(Val(args.rf_score))
             /\ \A b \in 0..Val(args.rf_score) :
                    calculate_radio(Some(b)) >= Val(ret)

\* C7 amended: the radio likelihood follows the table and is 0.10 for an
\* unknown score; it is non-increasing over [0,85] and rises from 0.00 to
\* 0.05 above 85.
C7_RadioTable ==
    RadioCall /\ ~IsNone(ret) =>
        IF IsNone(args.rf_score) THEN Val(ret) = Lit(10)
        ELSE /\ Val(ret) = RadioTable(Val(args.rf_score))
             /\ (Val(args.rf_score) <= RADIO_THRESHOLD_GOOD =>
                    \A b \in 0..Val(args.rf_score) :
                        calculate_radio(Some(b)) >= Val(ret))
             /\ (Val(args.rf_score) > RADIO_THRESHOLD_GOOD =>
                    /\ Val(ret) = Lit(5)
                    /\ calculate_radio(Some(RADIO_THRESHOLD_GOOD)) = 0)

\* the likelihood of score 86, above that of score 85
C7_Witness ==
    /\ RadioCall
    /\ args.rf_score = Some(86)
    /\ ret = Some(Lit(5))

\* the factors that apply, in tenths
FactorsInTenths(m) ==
    << IF m.jitter > 100 THEN 5 ELSE 10,
       IF m.latency_diff > 200 THEN 6 ELSE 10,
       IF ~IsNone(m.rf_score) /\ Val(m.rf_score) < 40 THEN 4 ELSE 10 >>

\* the three factors applied in each of the six orders
AllOrders(x, m) ==
    { RfFactor(LatencyFactor(JitterFactor(x, m), m), m),
      LatencyFactor(RfFactor(JitterFactor(x, m), m), m),
      RfFactor(JitterFactor(LatencyFactor(x, m), m), m),
      JitterFactor(RfFactor(LatencyFactor(x, m), m), m),
      LatencyFactor(JitterFactor(RfFactor(x, m), m), m),
      JitterFactor(LatencyFactor(RfFactor(x, m), m), m) }

AllThreeMetrics == [jitter |-> 150, latency_diff |-> 250, rf_score |-> Some(30)]

\* C8: the policy likelihood after counter-evidence is the clamped policy
\* score times the product of the applicable factors, whatever the order
\* of the factors; radio and congestion enter the normalisation as they
\* were computed; 0.8 with all three conditions gives 0.096.
C8_CounterEvidenceProduct ==
    AnalyzeCall =>
        LET a == Core
            m == a.metrics
            f == FactorsInTenths(m)
        IN  /\ a.policy * 1000 = a.policy0 * f[1] * f[2] * f[3]
            /\ AllOrders(a.policy0, m) = {a.policy}
            /\ a.radio = calculate_radio(m.rf_score)
            /\ a.congestion = calculate_congestion(m)
            /\ a.n = normalize(a.radio, a.congestion, a.policy)
            /\ apply_counter_evidence(Lit(80), AllThreeMetrics) = 960

\* a policy score of 0.8 with all three conditions, reduced to 0.096
C8_Witness ==
    /\ AnalyzeReturned
    /\ LET a == Core IN
        /\ a.policy0 = Lit(80)
        /\ FactorsInTenths(a.metrics) = <<5, 6, 4>>
        /\ a.policy = 960

\* C9 as claimed: analyze returns a result, never an error, for every
\* present, absent or partially filled signal, network and history.
C9_AnalyzeNeverErrors ==
    args.fn = "analyze" /\ ~IsNone(ret) => Val(ret).error = ""

PsiCall == args.fn = "calculate_simple_psi"

Clamp(x, lo, hi) == IF x < lo THEN lo ELSE IF x > hi THEN hi ELSE x

\* clamp(rf - speed_score + latency_penalty, 0, 100) in fifteenths of the
\* score's denominator d
ReferencePsi(rf_score, down_mbps, latency_avg) ==
    LET d == IF IsNone(rf_score) THEN 1 ELSE Val(rf_score).d
        rfn == IF IsNone(rf_score) THEN 50 ELSE Val(rf_score).n
        latency == IF IsNone(latency_avg) THEN 0 ELSE Val(latency_avg)
        speed_score == Clamp(50 * down_mbps, 0, 1500)
        latency_penalty == IF 3 * (latency - 100) > 0
                           THEN 3 * (latency - 100) ELSE 0
    IN  Clamp(15 * rfn - d * speed_score + d * latency_penalty, 0, 1500 * d)

\* C10: calculate_simple_psi is clamp(rf - speed_score + latency_penalty,
\* 0, 100) with rf = 50 for an unknown score; it lies in [0,100];
\* rf_score=50, down_mbps=30, latency=50 gives 0.
C10_PsiClamped ==
    PsiCall /\ ~IsNone(ret) =>
        /\ Val(ret).n = ReferencePsi(args.rf_score, args.down_mbps,
                                     args.latency_avg)
        /\ Val(ret).n >= 0
        /\ Val(ret).n <= 100 * Val(ret).d
        /\ calculate_simple_psi(Some(Frac(50, 1)), 30, Some(50)).n = 0

\* the example: 50 - 100 + 0 is negative and is returned as 0
C10_Witness ==
    /\ PsiCall
    /\ args.rf_score = Some(Frac(50, 1))
    /\ args.down_mbps = 30
    /\ args.latency_avg = Some(50)
    /\ ret = Some(Frac(0, 15))

----------------------------------------------------------------------------
(* The test budget of Monitor (specification Spec).  cycle is the record   *)
(* of the classification cycle the latest tick ran, if it ran one.         *)

ProbeFailed == cycle.ran /\ cycle.started /\ ~cycle.succeeded

\* C2: in every reachable state daily_tests_count <= MAX_DAILY_tests (12),
\* and a classification cycle that finds the counter at the cap starts no
\* throughput probe, gets no result and leaves the counter alone, whatever
\* the PSI and the time since the last test.
C2_BudgetCap ==
    /\ daily_tests_count <= MAX_DAILY_tests
    /\ (cycle.ran /\ cycle.count_before >= MAX_DAILY_tests) =>
          /\ ~cycle.started
          /\ ~cycle.succeeded
          /\ daily_tests_count = cycle.count_before

\* a cycle at the cap with PSI above the trigger and the baseline interval
\* long past
C2_Witness ==
    /\ cycle.ran
    /\ cycle.count_before = MAX_DAILY_tests
    /\ cycle.psi_high
    /\ cycle.ts > BASELINE_INTERVAL_SECONDS
    /\ ~cycle.started

\* C3: a triggered probe that succeeds adds exactly one to
\* daily_tests_count and makes now the time of the last test; one that
\* fails (neither run_forensic_download nor run_speedtest gives a result)
\* leaves the counter and the time of the last test as they were, and the
\* cycle diagnoses and logs the download figure known before it.
C3_BudgetChargedOnSuccessOnly ==
    (cycle.ran /\ cycle.started) =>
       IF cycle.succeeded
       THEN /\ daily_tests_count = cycle.count_before + 1
            /\ since_speedtest = 0
       ELSE /\ daily_tests_count = cycle.count_before
            /\ since_speedtest = cycle.ts
            /\ cycle.down_used = cycle.ld
            /\ Val(observations.last).down_mbps = cycle.ld

\* a failed probe after an earlier successful one, with a download figure
\* on record
C3_Witness ==
    /\ ProbeFailed
    /\ cycle.count_before >= 1
    /\ cycle.ld > 0

\* C4: with the counter below the cap a cycle starts a probe exactly when
\* the time since the last successful triggered test is over the baseline
\* interval, or PSI > 50 and that time is over the 900 s cooldown; so a
\* successful triggered test comes more than 900 s after the one before it.
C4_TriggerRule ==
    cycle.ran =>
       /\ cycle.count_before < MAX_DAILY_tests =>
             (cycle.started <=>
                \/ cycle.ts > BASELINE_INTERVAL_SECONDS
                \/ (cycle.psi_high /\ cycle.ts > COOLDOWN_SECONDS))
       /\ cycle.succeeded => cycle.ts > COOLDOWN_SECONDS

\* a probe started by PSI alone, within the baseline interval of the
\* previous successful test
C4_Witness ==
    /\ cycle.ran
    /\ cycle.succeeded
    /\ cycle.count_before >= 1
    /\ cycle.psi_high
    /\ cycle.ts <= BASELINE_INTERVAL_SECONDS

\* ---------------------------------------------------------------------
\* Cell sessions (SpecCells, SpecRoaming)

\* (band, pci, enodeb) of a session, a row or a snapshot
Identity(r) == <<r.band, r.pci, r.enodeb>>

\* C11: every row written to CELL_HISTORY belongs to a session that had
\* received at least one sample (so the averages divide by a count of at
\* least 1), and the first key change, where there is no session yet,
\* writes no row.
C11_NoEmptySessionRow ==
    /\ [](~IsNone(cell_sessions) => Val(cell_sessions).sample_count >= 1)
    /\ [][IsNone(current_key) => cell_sessions' = cell_sessions]_vars

\* a key change has just closed a session and written its row
C11_Witness ==
    /\ ~IsNone(cell_sessions)
    /\ Val(cell_sessions).sample_count >= 2
    /\ ticks_on_key = 1

\* C12 as the spec states it: a session is active at any time
C12_AlwaysOneSession ==
    ~IsNone(current_session)

\* C12, amended: there is no session from construction until the first
\* tick that reads a snapshot; from then on there is exactly one, opened
\* when current_key was last set: it carries the identity of a triple key
\* and has received exactly the samples of the ticks since that change.
C12_SessionFollowsKey ==
    /\ IsNone(current_session) <=> IsNone(current_key)
    /\ ~IsNone(current_session) =>
         /\ Val(current_session).sample_count = ticks_on_key
         /\ Val(current_key) # NETWORK_ONLY =>
              Val(current_key) = Identity(Val(current_session))

\* the second session of a run, three samples in
C12_Witness ==
    /\ ~IsNone(cell_sessions)
    /\ ~IsNone(current_session)
    /\ Val(current_key) # NETWORK_ONLY
    /\ Val(current_session).sample_count = 3

\* C13: the snapshot a tick has just added to the session is of the
\* session's own cell: it has the (band, pci, enodeb) the session recorded
\* when it was opened, whether or not the snapshots carry a score.
C13_SessionOwnCell ==
    (~IsNone(polled) /\ ~IsNone(current_session)) =>
        Identity(Val(polled)) = Identity(Val(current_session))

\* C14: a tick whose poll gave no snapshot changes nothing: the windows,
\* current_key, current_session, the day's budget and current_day, the
\* live state, last_speed_result and both stores are as before, and
\* last_change and last_speedtest_time are as before too (their ages have
\* grown by the time that passed and by nothing else).
C14_SkippedTickChangesNothing ==
    [][(IsNone(polled') /\ initial_pc' = initial_pc) =>
         /\ UNCHANGED <<windows, current_key, current_session,
                        daily_tests_count, current_day, latest_state,
                        last_speed_result, observations, cell_sessions>>
         /\ \E dt \in SleepSeconds :
              /\ since_change' = ChangeAge(since_change + dt)
              /\ since_speedtest' = SpeedtestAge(since_speedtest + dt)
       ]_vars

\* a poll gave nothing while a session and a window were under way
C14_Witness ==
    /\ IsNone(polled)
    /\ ~IsNone(current_session)
    /\ ~IsNone(latest_state.score)
    /\ \E k \in DOMAIN windows : Len(windows[k]) >= 2
    /\ since_change >= 2 * QuickSleep

\* the window of key k, empty when the key has none yet
WindowOf(w, k) == IF k \in DOMAIN w THEN w[k] ELSE <<>>

\* C15: a classification cycle runs only on a window of at least
\* MIN_SAMPLES scores and only when WINDOW_SECONDS have passed since the
\* last key change, so every observation row has samples >= 5; and a tick
\* that enters process_window (the time gate is open) with fewer than 5
\* scores starts no probe, writes no row, leaves budget, probe time and
\* last_speed_result alone and keeps the window with the new score in it.
C15_CycleNeedsSamplesAndTime ==
    /\ [](/\ ~IsNone(observations.last) =>
               Val(observations.last).samples >= MIN_SAMPLES
          /\ cycle.ran => since_change >= WINDOW_SECONDS)
    /\ [][(/\ ~IsNone(polled') /\ initial_pc' = initial_pc
           /\ since_change' >= WINDOW_SECONDS
           /\ Len(WindowOf(windows, Val(current_key'))) < MIN_SAMPLES - 1)
          => /\ ~cycle'.ran /\ ~cycle'.started
             /\ observations' = observations
             /\ last_speed_result' = last_speed_result
             /\ current_day' = current_day =>
                  daily_tests_count' = daily_tests_count
             /\ \E dt \in SleepSeconds :
                  since_speedtest' = SpeedtestAge(since_speedtest + dt)
             /\ Len(windows'[Val(current_key')]) =
                  Len(WindowOf(windows, Val(current_key'))) + 1
             /\ Val(current_session').sample_count = ticks_on_key'
       ]_vars

\* after a first cycle, process_window was entered with three scores
C15_Witness ==
    /\ observations.rows >= 1
    /\ ~IsNone(polled)
    /\ ~cycle.ran
    /\ since_change >= WINDOW_SECONDS
    /\ Len(WindowOf(windows, Val(current_key))) = 3

\* C16: a tick that completes a classification cycle for key K appends
\* exactly one observation row, leaves windows[K] empty and the windows
\* of the other keys as they were, and does to the session only what
\* every tick does (it adds the tick's own sample); so the session's
\* sample_count is always the number of ticks that read a snapshot since
\* the key change, whatever cycles ran.
C16_CycleFrame ==
    /\ [](~IsNone(current_session) =>
             Val(current_session).sample_count = ticks_on_key)
    /\ [][(cycle'.ran /\ initial_pc' = initial_pc) =>
           LET K == Val(current_key')
               d == Val(polled')
           IN  /\ observations.rows < MaxRows =>
                    observations'.rows = observations.rows + 1
               /\ ~IsNone(observations'.last)
               /\ Identity(Val(observations'.last)) = Identity(d)
               /\ windows'[K] = <<>>
               /\ DOMAIN windows' = DOMAIN windows
               /\ \A k \in DOMAIN windows \ {K} : windows'[k] = windows[k]
               /\ current_key' = current_key
               /\ current_session' =
                    update_session(current_session,
                                   get_key_and_score(d).score, d)
       ]_vars

\* a cycle has just run in a session of five samples while the window of
\* another key holds scores
C16_Witness ==
    /\ cycle.ran
    /\ ~IsNone(polled)
    /\ observations.rows = 1
    /\ Val(current_session).sample_count >= MIN_SAMPLES
    /\ windows[Val(current_key)] = <<>>
    /\ \E k \in DOMAIN windows : Len(windows[k]) >= 2

\* ---------------------------------------------------------------------
\* The throughput probe (SpecProbe)

\* the number of targets whose download gave a result
Measured(log) == Count(log, "measured")

\* C18: a target whose measurement fails (the download raises, or
\* classifying its curve raises) is the only one to lose its result: when
\* the probe returns every target has been tried, the probe returns None
\* only if no target gave a result, and what it returns is aggregated
\* over the targets that did.
C18_EndpointFailureIsLocal ==
    probe.pc = "returned" =>
        /\ Len(probe.measured) = NumTargets
        /\ IsNone(probe.ret) <=> Measured(probe.measured) = 0
        /\ ~IsNone(probe.ret) =>
             Len(Val(probe.ret).shapes) = Measured(probe.measured)

\* C19: at most one latency thread is alive at any time, none is alive
\* when the next target's thread is about to be started, and none is
\* alive when the probe has returned, with or without a measurement.
C19_LatencyThreadsJoined ==
    /\ Cardinality(ping_threads) <= 1
    /\ probe.pc = "start_thread" => ping_threads = {}
    /\ probe.pc = "returned" => ping_threads = {}

ShapeLabels == {"plateau", "linear_climb", "logarithmic", "uncertain"}

\* correlation(elapsed, mbps) > 0.8 with a positive slope, the two sides
\* of the comparison squared
ClimbsLinearly(samples) ==
    LET n == Len(samples)
        t == [i \in 1..n |-> samples[i][1]]
        y == [i \in 1..n |-> samples[i][2]]
        ty == [i \in 1..n |-> samples[i][1] * samples[i][2]]
        cov == n * Sum(ty) - Sum(t) * Sum(y)
        vt == n * SumSq(t) - Sum(t) * Sum(t)
        vy == n * SumSq(y) - Sum(y) * Sum(y)
    IN  cov > 0 /\ 100 * cov * cov > 64 * vt * vy

\* the label the specification gives a sample sequence
ShapeAsSpecified(samples) ==
    LET tail == SteadyState(MbpsValues(samples)) IN
    IF Len(samples) < 4 THEN "uncertain"
    ELSE IF 10 * Sum(tail) < Len(tail) THEN "uncertain"
    ELSE IF CvBelowPlateau(tail) THEN "plateau"
    ELSE IF ClimbsLinearly(samples) THEN "linear_climb"
    ELSE "logarithmic"

\* C20: analyze_shape returns one of the four labels for every sample
\* sequence, the one the decision order gives: uncertain below 4 samples
\* or with a tail mean below 0.1, plateau with a tail coefficient of
\* variation below 0.15, linear_climb when the rate correlates with the
\* elapsed time above 0.8 on a positive slope, logarithmic otherwise.
C20_ShapeIsSpecified ==
    ~IsNone(probe.shape) =>
        /\ Val(probe.shape) \in ShapeLabels
        /\ Val(probe.shape) = ShapeAsSpecified(Val(probe.samples))

\* ---------------------------------------------------------------------
\* state_lock (SpecLock)

\* C17: a thread reads or writes latest_state only while it holds
\* state_lock, and a thread that holds state_lock is never in a blocking
\* network or file operation, the status handler's write of its HTTP
\* response included.
C17_LockOnlyAroundMemory ==
    \A t \in DOMAIN thread_pc :
        /\ thread_pc[t] \in TouchesLatestState => state_lock = Some(t)
        /\ state_lock = Some(t) => thread_pc[t] \notin Blocking

\* C21: a row that cannot be appended, to the observation store or to
\* the cell-session store, does not end the poll loop: the poll thread is
\* alive in every state, so later ticks are executed.
C21_PollLoopSurvivesStoreError ==
    thread_pc.poll # "dead"

\* ---------------------------------------------------------------------
\* The classification cycle and its probes (Spec)

\* C22: no outcome of the latency probe or of the throughput probe stops
\* a cycle: a tick that enters process_window with at least MIN_SAMPLES
\* scores ends with a verdict, one more observation row and an empty
\* window; without a fresh throughput result the cycle diagnoses and logs
\* the download figure last known, and without a latency result it
\* diagnoses with latency, jitter and packet loss 0.
C22_ProbeFailureIsSoft ==
    /\ [](cycle.ran =>
            LET nw == Val(cycle.nw)
                row == Val(observations.last)
            IN  /\ row.verdict \in Verdicts
                /\ latest_state.verdict = row.verdict
                /\ row.samples >= MIN_SAMPLES
                /\ windows[Val(current_key)] = <<>>
                /\ ~cycle.succeeded =>
                     /\ nw.down_mbps = cycle.ld
                     /\ row.down_mbps = cycle.ld
                /\ IsNone(cycle.ping_res) =>
                     /\ nw.latency = 0
                     /\ nw.jitter = 0
                     /\ nw.packet_loss = 0)
    /\ [][(/\ ~IsNone(polled') /\ initial_pc' = initial_pc
           /\ since_change' >= WINDOW_SECONDS
           /\ Len(WindowOf(windows, Val(current_key'))) >= MIN_SAMPLES - 1)
          => /\ cycle'.ran
             /\ observations.rows < MaxRows =>
                  observations'.rows = observations.rows + 1
       ]_vars

\* the latency probe, run_forensic_download and run_speedtest all gave
\* nothing in a cycle that had a download figure on record
C22_Witness ==
    /\ cycle.ran
    /\ cycle.started
    /\ ~cycle.succeeded
    /\ IsNone(cycle.ping_res)
    /\ cycle.ld > 0

\* C23: last_change moves only when the cell key changes, never in a
\* classification cycle.  So once a stay on a key has passed WINDOW_SECONDS
\* the gate stays open on every later tick of the stay: a tick that reads a
\* snapshot completes a cycle exactly when its score brings the window to
\* MIN_SAMPLES, and a cycle that follows another cycle of the stay comes on
\* the MIN_SAMPLES-th such tick after it, never sooner and never later.
C23_GateStaysOpen ==
    /\ [](cycle.ran => since_change >= WINDOW_SECONDS)
    /\ [](~IsNone(ticks_since_cycle) =>
            /\ since_change >= WINDOW_SECONDS
            /\ Val(ticks_since_cycle) < MIN_SAMPLES
            /\ Len(windows[Val(current_key)]) = Val(ticks_since_cycle))
    /\ [][/\ since_change' < since_change => current_key' # current_key
          /\ (since_change >= WINDOW_SECONDS /\ current_key' = current_key)
               => since_change' >= WINDOW_SECONDS
          /\ (/\ ~IsNone(polled') /\ initial_pc' = initial_pc
              /\ current_key' = current_key
              /\ since_change' >= WINDOW_SECONDS)
               => (cycle'.ran <=>
                     Len(WindowOf(windows, Val(current_key))) + 1
                       >= MIN_SAMPLES)
          /\ (/\ initial_pc' = initial_pc
              /\ cycle'.ran /\ ~IsNone(ticks_since_cycle))
               => Val(ticks_since_cycle) = MIN_SAMPLES - 1 ]_vars

\* a second cycle of one stay has just run
C23_Witness ==
    /\ cycle.ran
    /\ ticks_since_cycle = Some(0)
    /\ ticks_on_key >= SessionCap
    /\ Val(observations.last).samples = MIN_SAMPLES

\* the scores of the rows of this hour of the day under seven days old
HourScoreRows ==
    { i \in 1..Len(args.rows) :
        /\ args.rows[i].age_hours < 7 * 24
        /\ args.rows[i].age_hours % 24 = 0
        /\ ~IsNone(args.rows[i].avg_score) }

HourScore(i) == Val(args.rows[i].avg_score)

RECURSIVE SumOver(_, _)
SumOver(f, S) ==
    IF S = {} THEN 0
    ELSE LET i == CHOOSE j \in S : TRUE IN f[i] + SumOver(f, S \ {i})

\* the population standard deviation of the same-hour scores is under 10:
\* the mean of the squared distances from the mean is under 100
HourScoresSteady ==
    LET n == Cardinality(HourScoreRows)
        total == SumOver([i \in HourScoreRows |-> HourScore(i)],
                         HourScoreRows)
    IN  SumOver([i \in HourScoreRows |->
                   (n * HourScore(i) - total) * (n * HourScore(i) - total)],
                HourScoreRows) < 100 * n * n * n

HistoryReturned == args.fn = "get_history_analysis" /\ ~IsNone(ret)

\* C24 as the specification states it: is_stable_hour is true exactly when
\* the store holds at least 5 same-hour scores of the last 7 days whose
\* population standard deviation is below 10.
C24_StableFromFiveScores ==
    (HistoryReturned /\ args.exists /\ args.readable) =>
        (Val(ret).is_stable_hour <=>
           /\ Cardinality(HourScoreRows) >= 5
           /\ HourScoresSteady)

\* C24, amended: is_stable_hour is true exactly when the store holds more
\* than 5 same-hour scores of the last 7 days whose population standard
\* deviation is below 10; a store that is missing or cannot be read gives
\* the neutral context.
C24_StableFromSixScores ==
    HistoryReturned =>
        IF args.exists /\ args.readable
        THEN Val(ret).is_stable_hour <=>
               /\ Cardinality(HourScoreRows) > 5
               /\ HourScoresSteady
        ELSE Val(ret) = NeutralHistory

\* six steady scores of this hour among other rows
C24_Witness ==
    /\ HistoryReturned /\ args.exists /\ args.readable
    /\ Val(ret).is_stable_hour
    /\ Cardinality(HourScoreRows) = 6
    /\ \E i, j \in HourScoreRows : HourScore(i) # HourScore(j)

\* C25: from a store without a Policy row, no tick and no classification
\* cycle ever stores a row with the verdict "Policy-Like Pattern Detected":
\* the count of Policy rows stays 0, so that every policy verdict is stored
\* and shown as "Observed, low confidence".
C25_NoPolicyRowEver ==
    /\ observations.policy_count = 0
    /\ latest_state.verdict # VERDICT_POLICY
    /\ ~IsNone(observations.last) =>
         ~StartsWithPolicy(Val(observations.last).verdict)
    /\ cycle.ran =>
         Val(observations.last).verdict \in Verdicts \ {VERDICT_POLICY}

\* a cycle whose policy verdict was downgraded
C25_Witness ==
    /\ cycle.ran
    /\ Val(observations.last).verdict = VERDICT_LOW_CONFIDENCE
    /\ latest_state.verdict = VERDICT_LOW_CONFIDENCE
    /\ observations.policy_count = 0

\* C26: at most one throughput probe is in progress at any time: no
\* classification cycle starts a triggered probe while the startup probe
\* of run_initial_speedtest is still running.
C26_OneProbeAtATime ==
    ~(cycle.ran /\ cycle.started /\ initial_pc = "start")

\* C27: last_speed_result is never replaced by the result of a probe that
\* started before the probe whose result it holds: once a classification
\* cycle has stored its probe's result, the startup probe's result does not
\* overwrite it.
C27_NoStaleOverwrite ==
    [][(/\ initial_pc = "start" /\ initial_pc' = "done"
        /\ last_speed_result # <<>>)
       => last_speed_result' = last_speed_result]_vars

\* C28 as the specification states it: every score a classification cycle
\* uses was appended during the current stay on the key, so a cycle never
\* has more samples than the stay has had ticks.
C28_SamplesOfThisStay ==
    (cycle.ran /\ ticks_on_key < SessionCap) =>
        Val(observations.last).samples <= ticks_on_key

\* C28, amended: the window of a key is kept when the monitor leaves the
\* cell and is taken up again when it returns.  A tick that reads a
\* snapshot appends its score to the window of its key, whether or not the
\* key has just changed, and leaves every other window as it was; a cycle
\* uses all the scores of that window, those of earlier visits included,
\* and only a cycle empties it.
C28_WindowsOutliveStays ==
    [][(~IsNone(polled') /\ initial_pc' = initial_pc) =>
         LET ks == get_key_and_score(Val(polled'))
             before == WindowOf(windows, ks.key)
         IN  /\ current_key' = Some(ks.key)
             /\ \A k \in DOMAIN windows \ {ks.key} :
                   /\ k \in DOMAIN windows'
                   /\ windows'[k] = windows[k]
             /\ IF cycle'.ran
                THEN /\ windows'[ks.key] = <<>>
                     /\ Val(observations'.last).samples = Len(before) + 1
                ELSE windows'[ks.key] = Append(before, ks.score) ]_vars

\* a cycle on a cell the monitor came back to, with scores of the earlier
\* visit among its samples
C28_Witness ==
    /\ cycle.ran
    /\ ticks_on_key < MIN_SAMPLES
    /\ Val(observations.last).samples >= MIN_SAMPLES
    /\ current_key # Some("NETWORK_ONLY")

\* C29: with the poll loop running on, if from some tick on every read
\* gives a snapshot (of one cell key), then classification cycles complete
\* and store an observation row again and again: neither the time gate nor
\* the sample gate nor an exhausted test budget holds them up for ever.
C29_CyclesRecur ==
    (<>[](~IsNone(polled)))
      => []<>(/\ cycle.ran
              /\ ~IsNone(observations.last)
              /\ Val(observations.last).samples >= MIN_SAMPLES)

\* a cycle completed although the day's tests are used up
C29_Witness ==
    /\ cycle.ran
    /\ ~cycle.started
    /\ daily_tests_count >= MAX_DAILY_tests
    /\ since_change >= WINDOW_SECONDS

============================================================================
